---- MODULE Spec2Model ----
(***************************************************************************)
(* Model of app.py, the Streamlit dashboard of DMC weather warnings.       *)
(*                                                                         *)
(* Text is modelled as TLA+ strings read character by character; a cell    *)
(* of the feed that may be null is an option: <<>> for null, <<v>> for v.  *)
(* A parsed timestamp is the tuple <<year, month, day, hour, minute>> and  *)
(* pd.NaT is the empty tuple.                                              *)
(***************************************************************************)
EXTENDS Integers, Sequences, FiniteSets, TLC

VARIABLES
    pc,                   \* where the script run (or the function under test) stands
    feed,                 \* what DATA_URL serves: [status, cols, rows]
    gdf,                  \* the GeoDataFrame of the run: [cols, rows]
    tipos_disponibles,    \* options of the "Tipo de evento" multiselect
    tipos_seleccionados,  \* its selection
    regiones,             \* options of the "Región" selectbox, after "Todas"
    region_sel,           \* its selection
    rango_fechas,         \* the date_input's value: <<>>, <<d>> or <<desde, hasta>>
    gdf_filtrado,         \* the filtered rows
    counts,               \* count_aviso, count_alerta, count_alarma
    ultima,               \* ultima_fecha, ultimo_codigo, ultimo_tipo, ultimo_fenomeno
    ahora,                \* pd.Timestamp.now, in seconds since 1970-01-01
    card,                 \* what last_alert_card shows
    df_reg,               \* the per-region chart: <<>> (not drawn) or <<its rows>>
    df_tabla,             \* the detail table: <<>> (not drawn) or <<its rows>>
    screen,               \* the elements the run has put on the page, in order
    emisionIn,            \* parse_emision_text alone: the fields its text is built from
    value,                \* parse_emision_text alone: its argument
    parsed                \* parse_emision_text alone: its result

vars == <<pc, feed, gdf, tipos_disponibles, tipos_seleccionados, regiones, region_sel,
          rango_fechas, gdf_filtrado, counts, ultima, ahora, card, df_reg, df_tabla,
          screen, emisionIn, value, parsed>>

\* ------------------------------------------------------------------
\* Characters and strings
\* ------------------------------------------------------------------
Ch(s, i) == SubSeq(s, i, i)

CharsOf(s) == {Ch(s, i) : i \in 1..Len(s)}

UpperLetters == "ABCDEFGHIJKLMNOPQRSTUVWXYZÁÉÍÓÚÑ"
LowerLetters == "abcdefghijklmnopqrstuvwxyzáéíóúñ"
\* the NFD base letter of each of LowerLetters / UpperLetters
LowerBase == "abcdefghijklmnopqrstuvwxyzaeioun"
UpperBase == "ABCDEFGHIJKLMNOPQRSTUVWXYZAEIOUN"
DigitChars == "0123456789"

Digits == CharsOf(DigitChars)
UpperSet == CharsOf(UpperLetters)
LowerSet == CharsOf(LowerLetters)
SpaceChars == {" ", "\t", "\n"}
\* \w of the pattern, over the characters of the model
WordChars == UpperSet \cup LowerSet \cup Digits \cup {"_"}
\* [A-Za-zÁÉÍÓÚáéíóúñÑ] of the pattern
MonthChars == UpperSet \cup LowerSet

IndexIn(s, c) == CHOOSE i \in 1..Len(s) : Ch(s, i) = c

\* str.lower() and str.upper() of a letter
ToLower == [c \in UpperSet |-> Ch(LowerLetters, IndexIn(UpperLetters, c))]
ToUpper == [c \in LowerSet |-> Ch(UpperLetters, IndexIn(LowerLetters, c))]
\* the letter without its combining mark
ToBase == [c \in UpperSet \cup LowerSet |->
              IF c \in LowerSet THEN Ch(LowerBase, IndexIn(LowerLetters, c))
              ELSE Ch(UpperBase, IndexIn(UpperLetters, c))]
DigitValue == [c \in Digits |-> IndexIn(DigitChars, c) - 1]

LowerChar(c) == IF c \in UpperSet THEN ToLower[c] ELSE c

UpperChar(c) == IF c \in LowerSet THEN ToUpper[c] ELSE c

StripChar(c) == IF c \in MonthChars THEN ToBase[c] ELSE c

RECURSIVE MapLower(_)
MapLower(s) == IF s = "" THEN "" ELSE LowerChar(Head(s)) \o MapLower(Tail(s))

RECURSIVE _strip_accents(_)
_strip_accents(s) == IF s = "" THEN "" ELSE StripChar(Head(s)) \o _strip_accents(Tail(s))

\* str.replace(pat, ""): leftmost, non-overlapping
RECURSIVE Remove(_, _)
Remove(s, pat) ==
    IF Len(s) < Len(pat) THEN s
    ELSE IF SubSeq(s, 1, Len(pat)) = pat THEN Remove(SubSeq(s, Len(pat) + 1, Len(s)), pat)
    ELSE Head(s) \o Remove(Tail(s), pat)

RECURSIVE LStrip(_)
LStrip(s) == IF s # "" /\ Head(s) \in SpaceChars THEN LStrip(Tail(s)) ELSE s

RECURSIVE RStrip(_)
RStrip(s) == IF s # "" /\ Ch(s, Len(s)) \in SpaceChars
             THEN RStrip(SubSeq(s, 1, Len(s) - 1)) ELSE s

Strip(s) == RStrip(LStrip(s))

\* int() of a string of digits
RECURSIVE ToInt(_)
ToInt(s) == IF s = "" THEN 0
            ELSE ToInt(SubSeq(s, 1, Len(s) - 1)) * 10 + DigitValue[Ch(s, Len(s))]

\* ------------------------------------------------------------------
\* parse_emision_text
\* ------------------------------------------------------------------
NaT == <<>>

MONTHS_ES == [enero |-> 1, febrero |-> 2, marzo |-> 3, abril |-> 4, mayo |-> 5,
              junio |-> 6, julio |-> 7, agosto |-> 8, septiembre |-> 9,
              setiembre |-> 9, octubre |-> 10, noviembre |-> 11, diciembre |-> 12]

\* the position after the longest run of characters of cls that starts at i
RECURSIVE SpanEnd(_, _, _)
SpanEnd(cls, s, i) == IF i <= Len(s) /\ Ch(s, i) \in cls THEN SpanEnd(cls, s, i + 1) ELSE i

\* a position of 0 is a failed match
\* cls+ at i: the position after it
Plus(cls, s, i) == IF i = 0 \/ SpanEnd(cls, s, i) = i THEN 0 ELSE SpanEnd(cls, s, i)

\* cls{lo,hi} at i, followed by a character outside cls that the pattern
\* requires next: a longer run of cls fails the match
Count(cls, lo, hi, s, i) ==
    IF i = 0 THEN 0
    ELSE LET j == SpanEnd(cls, s, i)
         IN  IF j - i >= lo /\ j - i <= hi THEN j ELSE 0

\* a literal at i, ignoring case
Lit(lit, s, i) ==
    IF i = 0 \/ i + Len(lit) - 1 > Len(s) THEN 0
    ELSE IF MapLower(SubSeq(s, i, i + Len(lit) - 1)) = lit THEN i + Len(lit) ELSE 0

\* the final (\d{2}): exactly two digits at i, whatever follows
TwoDigits(s, i) ==
    IF i = 0 \/ i + 1 > Len(s) THEN 0
    ELSE IF Ch(s, i) \in Digits /\ Ch(s, i + 1) \in Digits THEN i + 2 ELSE 0

\* EMISION_PATTERN.match(text): the five groups, or <<>> when there is no match
EMISION_PATTERN(text) ==
    LET p0 == SpanEnd(SpaceChars, text, 1)
        p1 == Plus(SpaceChars, text, Plus(WordChars, text, p0))
        p2 == Count(Digits, 1, 2, text, p1)
        p3 == Plus(SpaceChars, text, Lit("de", text, Plus(SpaceChars, text, p2)))
        p4 == Plus(MonthChars, text, p3)
        p5 == Plus(SpaceChars, text, Lit("del", text, Plus(SpaceChars, text, p4)))
        p6 == Count(Digits, 4, 4, text, p5)
        p7 == Plus(SpaceChars, text, Lit("a", text, Plus(SpaceChars, text, p6)))
        p8 == Plus(SpaceChars, text, Lit("las", text, p7))
        p9 == Count(Digits, 1, 2, text, p8)
        p10 == TwoDigits(text, Lit(":", text, p9))
    IN  IF p10 = 0 THEN <<>>
        ELSE << SubSeq(text, p1, p2 - 1), SubSeq(text, p3, p4 - 1),
                SubSeq(text, p5, p6 - 1), SubSeq(text, p8, p9 - 1),
                SubSeq(text, p9 + 1, p10 - 1) >>

IsLeap(y) == (y % 4 = 0 /\ y % 100 # 0) \/ y % 400 = 0

DaysInMonth(y, m) ==
    IF m = 2 THEN (IF IsLeap(y) THEN 29 ELSE 28)
    ELSE IF m \in {4, 6, 9, 11} THEN 30 ELSE 31

\* datetime(year, month, day, hour, minute) raises ValueError outside these ranges
DatetimeOk(y, m, d, h, mi) ==
    /\ y >= 1 /\ y <= 9999
    /\ m >= 1 /\ m <= 12
    /\ d >= 1 /\ d <= DaysInMonth(y, m)
    /\ h >= 0 /\ h <= 23
    /\ mi >= 0 /\ mi <= 59

parse_emision_text(v) ==
    IF v = <<>> THEN NaT
    ELSE LET text == Strip(Remove(Remove(v[1], "hrs."), "hrs"))
             m == EMISION_PATTERN(text)
         IN  IF m = <<>> THEN NaT
             ELSE LET day == ToInt(m[1])
                      month_name == _strip_accents(MapLower(m[2]))
                      year == ToInt(m[3])
                      hour == ToInt(m[4])
                      minute == ToInt(m[5])
                  IN  IF month_name \notin DOMAIN MONTHS_ES THEN NaT
                      ELSE IF DatetimeOk(year, MONTHS_ES[month_name], day, hour, minute)
                           THEN <<year, MONTHS_ES[month_name], day, hour, minute>>
                           ELSE NaT

\* ------------------------------------------------------------------
\* Timestamps, dates and the strings the pipeline orders
\* ------------------------------------------------------------------
RECURSIVE SeqLess(_, _)
\* Python's < on tuples of integers
SeqLess(a, b) ==
    IF b = <<>> THEN FALSE
    ELSE IF a = <<>> THEN TRUE
    ELSE IF Head(a) # Head(b) THEN Head(a) < Head(b)
    ELSE SeqLess(Tail(a), Tail(b))

SeqLE(a, b) == a = b \/ SeqLess(a, b)

\* Timestamp.date()
DateOf(ts) == SubSeq(ts, 1, 3)

\* days from 1970-01-01 to the civil date y-m-d
DaysFromCivil(y, m, d) ==
    LET yy == IF m <= 2 THEN y - 1 ELSE y
        era == yy \div 400
        yoe == yy - era * 400
        mp == (m + 9) % 12
        doy == (153 * mp + 2) \div 5 + d - 1
        doe == yoe * 365 + yoe \div 4 - yoe \div 100 + doy
    IN  era * 146097 + doe - 719468

\* a timestamp as seconds since 1970-01-01T00:00
EpochSeconds(ts) ==
    DaysFromCivil(ts[1], ts[2], ts[3]) * 86400 + ts[4] * 3600 + ts[5] * 60

\* the characters of the model in code point order
CodePointOrder ==
    "\t\n 0123456789ABCDEFGHIJKLMNOPQRSTUVWXYZ_abcdefghijklmnopqrstuvwxyzÁÉÍÑÓÚáéíñóú"

CodePoint == [c \in CharsOf(CodePointOrder) |-> IndexIn(CodePointOrder, c)]

RECURSIVE StrLess(_, _)
\* Python's < on str
StrLess(a, b) ==
    IF b = "" THEN FALSE
    ELSE IF a = "" THEN TRUE
    ELSE IF Head(a) # Head(b)
         THEN CodePoint[Head(a)] < CodePoint[Head(b)]
    ELSE StrLess(Tail(a), Tail(b))

RECURSIVE sorted(_)
\* sorted() of a set of distinct strings
sorted(S) ==
    IF S = {} THEN <<>>
    ELSE LET lo == CHOOSE x \in S : \A y \in S : x = y \/ StrLess(x, y)
         IN  <<lo>> \o sorted(S \ {lo})

IsLetter(c) == c \in MonthChars

RECURSIVE TitleFrom(_, _)
TitleFrom(s, inWord) ==
    IF s = "" THEN ""
    ELSE LET c == Head(s)
         IN  (IF ~IsLetter(c) THEN c ELSE IF inWord THEN LowerChar(c) ELSE UpperChar(c))
             \o TitleFrom(Tail(s), IsLetter(c))

\* str.title()
Title(s) == TitleFrom(s, FALSE)

\* astype(str) of a cell
AsStr(v) == IF v = <<>> THEN "None" ELSE v[1]

\* ------------------------------------------------------------------
\* Sequences of rows
\* ------------------------------------------------------------------
\* rows[mask]: the rows that a boolean mask keeps, in order
Filter(rows, mask) ==
    LET F[i \in 0..Len(rows)] ==
            IF i = 0 THEN <<>>
            ELSE IF mask[i] THEN Append(F[i - 1], rows[i]) ELSE F[i - 1]
    IN  F[Len(rows)]

\* drop_duplicates on the columns of subset: the first row of each key, in order
drop_duplicates(rows, subset) ==
    LET key(i) == [c \in subset |-> rows[i][c]]
        first(i) == \A j \in 1..(i - 1) : key(j) # key(i)
    IN  Filter(rows, [i \in 1..Len(rows) |-> first(i)])

\* sort_values on an integer column: ascending, equal keys in their input order
sort_values(rows, col) ==
    LET Insert(acc, r) ==
            LET k == Cardinality({j \in 1..Len(acc) : acc[j][col] <= r[col]})
            IN  SubSeq(acc, 1, k) \o <<r>> \o SubSeq(acc, k + 1, Len(acc))
        F[i \in 0..Len(rows)] == IF i = 0 THEN <<>> ELSE Insert(F[i - 1], rows[i])
    IN  F[Len(rows)]

Range(seq) == {seq[i] : i \in 1..Len(seq)}

\* frame[col].tolist()
Column(rows, col) == [i \in 1..Len(rows) |-> rows[i][col]]

\* ------------------------------------------------------------------
\* Columns of the GeoJSON
\* ------------------------------------------------------------------
COL_CODIGO == "codigoMeteo"
COL_TIPO == "tipo"
COL_REGION == "reg"
COL_ORDEN == "orden"
COL_FECHA == "emision"
COL_ESTADO == "estado"
COL_FENOMENO == "fenomeno"
\* the GeoDataFrame's own columns: its index and its geometry
COL_INDEX == "index"
COL_GEOMETRY == "geometry"

PropertyCols == {COL_CODIGO, COL_TIPO, COL_REGION, COL_ORDEN, COL_FECHA, COL_ESTADO,
                 COL_FENOMENO}

\* ------------------------------------------------------------------
\* load_data
\* ------------------------------------------------------------------
\* gpd.read_file: the features as rows, indexed 1..n, with the columns the feed has
read_file(content) ==
    [cols |-> content.cols \cup {COL_INDEX, COL_GEOMETRY},
     rows |-> [i \in 1..Len(content.rows) |->
                  [c \in content.cols \cup {COL_INDEX, COL_GEOMETRY} |->
                      IF c = COL_INDEX THEN i ELSE content.rows[i][c]]]]

\* load_data(url): the frame, or the exception requests.get / raise_for_status raised
load_data(f) ==
    IF f.status # "ok" THEN [raised |-> f.status, frame |-> [cols |-> {}, rows |-> <<>>]]
    ELSE [raised |-> "", frame |-> read_file(f)]

\* ------------------------------------------------------------------
\* Normalisations
\* ------------------------------------------------------------------
normalizar(frame) ==
    [cols |-> frame.cols,
     rows |-> [i \in 1..Len(frame.rows) |->
                  [c \in frame.cols |->
                      IF c = COL_FECHA THEN parse_emision_text(frame.rows[i][c])
                      ELSE IF c = COL_TIPO THEN Title(AsStr(frame.rows[i][c]))
                      ELSE frame.rows[i][c]]]]

\* ------------------------------------------------------------------
\* Sidebar
\* ------------------------------------------------------------------
Compute_tipos_disponibles(frame) ==
    IF COL_TIPO \in frame.cols
    THEN sorted({frame.rows[i][COL_TIPO] : i \in 1..Len(frame.rows)})
    ELSE <<>>

\* what the multiselect can return
MultiselectValues(options) == IF options = <<>> THEN {{}} ELSE SUBSET Range(options)

Compute_regiones(frame) ==
    IF COL_REGION \in frame.cols /\ COL_ORDEN \in frame.cols
    THEN Column(sort_values(drop_duplicates(frame.rows, {COL_REGION, COL_ORDEN}), COL_ORDEN),
                COL_REGION)
    ELSE <<>>

Todas == "Todas"

SelectboxValues(options) == {Todas} \cup Range(options)

\* the rows whose emision parsed
FechaNotna(frame) ==
    IF COL_FECHA \in frame.cols
    THEN {i \in 1..Len(frame.rows) : frame.rows[i][COL_FECHA] # NaT}
    ELSE {}

min_date(frame) ==
    DateOf(CHOOSE t \in {frame.rows[i][COL_FECHA] : i \in FechaNotna(frame)} :
              \A i \in FechaNotna(frame) : SeqLE(t, frame.rows[i][COL_FECHA]))

max_date(frame) ==
    DateOf(CHOOSE t \in {frame.rows[i][COL_FECHA] : i \in FechaNotna(frame)} :
              \A i \in FechaNotna(frame) : SeqLE(frame.rows[i][COL_FECHA], t))

\* the days a user can pick in the calendar of the model
CalendarDays == {<<2025, 11, 28>>, <<2025, 11, 30>>, <<2025, 12, 1>>}

\* what st.sidebar.date_input can return: a range inside [min_value, max_value],
\* or its first day alone while the second has not been picked; without the
\* widget rango_fechas is None, which the model writes <<>>
DateInputValues(frame) ==
    IF FechaNotna(frame) = {} THEN {<<>>}
    ELSE LET days == {d \in CalendarDays :
                         SeqLE(min_date(frame), d) /\ SeqLE(d, max_date(frame))}
         IN  {<<d>> : d \in days}
             \cup {p \in days \X days : SeqLE(p[1], p[2])}

\* ------------------------------------------------------------------
\* Filters
\* ------------------------------------------------------------------
\* (mutant) the range compared with the timestamp, not with its date
Compute_gdf_filtrado_con_hora(frame, tipos, region, rango) ==
    LET Mask(rows, Keep(_)) == [i \in 1..Len(rows) |-> Keep(rows[i])]
        byTipo(r) == r[COL_TIPO] \in tipos
        byRegion(r) == r[COL_REGION] = region
        byFecha(r) == /\ r[COL_FECHA] # NaT
                      /\ SeqLE(rango[1] \o <<0, 0>>, r[COL_FECHA])
                      /\ SeqLE(r[COL_FECHA], rango[2] \o <<0, 0>>)
        f1 == IF tipos # {} /\ COL_TIPO \in frame.cols
              THEN Filter(frame.rows, Mask(frame.rows, byTipo)) ELSE frame.rows
        f2 == IF region # Todas /\ COL_REGION \in frame.cols
              THEN Filter(f1, Mask(f1, byRegion)) ELSE f1
    IN  IF COL_FECHA \in frame.cols /\ Len(rango) = 2 THEN Filter(f2, Mask(f2, byFecha)) ELSE f2

Compute_gdf_filtrado(frame, tipos, region, rango) ==
    LET Mask(rows, Keep(_)) == [i \in 1..Len(rows) |-> Keep(rows[i])]
        byTipo(r) == r[COL_TIPO] \in tipos
        byRegion(r) == r[COL_REGION] = region
        byFecha(r) == /\ r[COL_FECHA] # NaT
                      /\ SeqLE(rango[1], DateOf(r[COL_FECHA]))
                      /\ SeqLE(DateOf(r[COL_FECHA]), rango[2])
        f1 == IF tipos # {} /\ COL_TIPO \in frame.cols
              THEN Filter(frame.rows, Mask(frame.rows, byTipo)) ELSE frame.rows
        f2 == IF region # Todas /\ COL_REGION \in frame.cols
              THEN Filter(f1, Mask(f1, byRegion)) ELSE f1
    IN  IF COL_FECHA \in frame.cols /\ Len(rango) = 2 THEN Filter(f2, Mask(f2, byFecha)) ELSE f2

\* ------------------------------------------------------------------
\* National counts and the most recent emission
\* ------------------------------------------------------------------
\* (mutant) the counts taken over the rows, without the drop_duplicates
conteo_sin_drop_duplicates(cols, rows) ==
    IF {COL_CODIGO, COL_TIPO} \subseteq cols
    THEN LET n(t) == Cardinality({i \in 1..Len(rows) : rows[i][COL_TIPO] = t})
         IN  [Aviso |-> n("Aviso"), Alerta |-> n("Alerta"), Alarma |-> n("Alarma")]
    ELSE [Aviso |-> 0, Alerta |-> 0, Alarma |-> 0]

\* count_aviso, count_alerta, count_alarma
conteo_nacional(cols, rows) ==
    IF {COL_CODIGO, COL_TIPO} \subseteq cols
    THEN LET eventos_nacionales == drop_duplicates(rows, {COL_CODIGO, COL_TIPO})
             n(t) == Cardinality({i \in 1..Len(eventos_nacionales) :
                                     eventos_nacionales[i][COL_TIPO] = t})
         IN  [Aviso |-> n("Aviso"), Alerta |-> n("Alerta"), Alarma |-> n("Alarma")]
    ELSE [Aviso |-> 0, Alerta |-> 0, Alarma |-> 0]

\* Series.idxmax(): the index of the first row that holds the maximum
idxmax(frame) ==
    CHOOSE i \in FechaNotna(frame) :
        /\ \A j \in FechaNotna(frame) : SeqLE(frame.rows[j][COL_FECHA], frame.rows[i][COL_FECHA])
        /\ \A j \in FechaNotna(frame) :
              frame.rows[j][COL_FECHA] = frame.rows[i][COL_FECHA] => i <= j

\* (mutant) the most recent emission taken from the filtered rows
Compute_ultima_de_filtrado(frame) ==
    LET f == [cols |-> frame.cols, rows |-> gdf_filtrado]
    IN  IF FechaNotna(f) # {}
        THEN LET idx_last == idxmax(f)
                 at(c) == IF c \in f.cols THEN <<f.rows[idx_last][c]>> ELSE <<>>
             IN  [fecha |-> <<f.rows[idx_last][COL_FECHA]>>, codigo |-> at(COL_CODIGO),
                  tipo |-> at(COL_TIPO), fenomeno |-> at(COL_FENOMENO)]
        ELSE [fecha |-> <<>>, codigo |-> <<>>, tipo |-> <<>>, fenomeno |-> <<>>]

\* ultima_fecha, ultimo_codigo, ultimo_tipo, ultimo_fenomeno; None is <<>>
Compute_ultima(frame) ==
    IF FechaNotna(frame) # {}
    THEN LET idx_last == idxmax(frame)
             at(c) == IF c \in frame.cols THEN <<frame.rows[idx_last][c]>> ELSE <<>>
         IN  [fecha |-> <<frame.rows[idx_last][COL_FECHA]>>, codigo |-> at(COL_CODIGO),
              tipo |-> at(COL_TIPO), fenomeno |-> at(COL_FENOMENO)]
    ELSE [fecha |-> <<>>, codigo |-> <<>>, tipo |-> <<>>, fenomeno |-> <<>>]

\* (mutant) the hours taken from the whole delta, not from delta.seconds
Transcurrido_horas_totales(now, fecha) ==
    LET delta == now - fecha
        dias == delta \div 86400
        horas == delta \div 3600
        resto == delta % 3600
        minutos == resto \div 60
    IN  [dias |-> dias, horas |-> horas, minutos |-> minutos,
         partes |-> (IF dias > 0 THEN <<"d">> ELSE <<>>)
                    \o (IF horas > 0 \/ dias > 0 THEN <<"h">> ELSE <<>>)
                    \o <<"min">>]

\* the elapsed time of last_alert_card: delta.days, then divmod of delta.seconds
Transcurrido(now, fecha) ==
    LET delta == now - fecha
        dias == delta \div 86400
        seconds == delta % 86400
        horas == seconds \div 3600
        resto == seconds % 3600
        minutos == resto \div 60
    IN  [dias |-> dias, horas |-> horas, minutos |-> minutos,
         partes |-> (IF dias > 0 THEN <<"d">> ELSE <<>>)
                    \o (IF horas > 0 \/ dias > 0 THEN <<"h">> ELSE <<>>)
                    \o <<"min">>]

\* last_alert_card(fecha_ultima, ...): the card without information, or the card
\* with the type, the colour of the code and the elapsed time
last_alert_card(now, u) ==
    IF u.fecha = <<>> \/ u.fecha = <<NaT>>
    THEN [info |-> FALSE, tipo_norm |-> "", code_color |-> "",
          dias |-> 0, horas |-> 0, minutos |-> 0, partes |-> <<>>]
    ELSE LET tipo_norm == Title(Strip(IF u.tipo = <<>> THEN "" ELSE u.tipo[1]))
             t == Transcurrido(now, EpochSeconds(u.fecha[1]))
         IN  [info |-> TRUE, tipo_norm |-> tipo_norm,
              code_color |-> IF tipo_norm = "Aviso" THEN "#d68910"
                             ELSE IF tipo_norm = "Alerta" THEN "#e67e22"
                             ELSE IF tipo_norm = "Alarma" THEN "#c0392b"
                             ELSE "#34495e",
              dias |-> t.dias, horas |-> t.horas, minutos |-> t.minutos,
              partes |-> t.partes]

\* the order of the three KPI cards on the page
KpiSeries == <<"Aviso", "Alerta", "Alarma">>

\* ------------------------------------------------------------------
\* Per-region chart and detail table
\* ------------------------------------------------------------------
\* groupby([reg, orden])[codigo].nunique().reset_index(name="Total"): one row per
\* (reg, orden) group, the groups in the order of their keys
groupby_nunique(rows) ==
    LET regs == sorted({r[COL_REGION] : r \in Range(rows)})
        ordenes(g) == {r[COL_ORDEN] : r \in {x \in Range(rows) : x[COL_REGION] = g}}
        total(g, o) == Cardinality({r[COL_CODIGO] : r \in
                          {x \in Range(rows) : x[COL_REGION] = g /\ x[COL_ORDEN] = o}})
        Groups[i \in 0..Len(regs)] ==
            IF i = 0 THEN <<>>
            ELSE Groups[i - 1] \o
                 [k \in 1..Cardinality(ordenes(regs[i])) |->
                     LET o == CHOOSE o \in ordenes(regs[i]) :
                                Cardinality({x \in ordenes(regs[i]) : x < o}) = k - 1
                     IN  [reg |-> regs[i], orden |-> o, Total |-> total(regs[i], o)]]
    IN  Groups[Len(regs)]

\* (mutant) the groups left in the order of groupby, without the sort_values
Compute_df_reg_sin_sort(cols, rows) ==
    IF {COL_REGION, COL_ORDEN, COL_CODIGO} \subseteq cols
    THEN <<groupby_nunique(
              drop_duplicates(rows, {COL_REGION, COL_ORDEN, COL_CODIGO}))>>
    ELSE <<>>

\* (mutant) without orden, the regions counted in the order of their first row
Compute_df_reg_por_insercion(cols, rows) ==
    IF {COL_REGION, COL_ORDEN, COL_CODIGO} \subseteq cols
    THEN <<sort_values(groupby_nunique(
                           drop_duplicates(rows, {COL_REGION, COL_ORDEN, COL_CODIGO})),
                       COL_ORDEN)>>
    ELSE IF {COL_REGION, COL_CODIGO} \subseteq cols
    THEN LET regs == Column(drop_duplicates(rows, {COL_REGION}), COL_REGION)
         IN  <<[i \in 1..Len(regs) |->
                   [reg |-> regs[i],
                    Total |-> Cardinality({r[COL_CODIGO] : r \in
                                  {x \in Range(rows) : x[COL_REGION] = regs[i]}})]]>>
    ELSE <<>>

\* df_reg: <<>> when the chart cannot be drawn, <<its rows>> otherwise
Compute_df_reg(cols, rows) ==
    IF {COL_REGION, COL_ORDEN, COL_CODIGO} \subseteq cols
    THEN <<sort_values(groupby_nunique(
                           drop_duplicates(rows, {COL_REGION, COL_ORDEN, COL_CODIGO})),
                       COL_ORDEN)>>
    ELSE <<>>

TablaCols == <<COL_TIPO, COL_REGION, COL_CODIGO, COL_FENOMENO, COL_FECHA, COL_ESTADO>>

columnas_base(cols) == Filter(TablaCols, [i \in 1..Len(TablaCols) |-> TablaCols[i] \in cols])

\* df_tabla: [raised, tabla]; drop_duplicates(subset=[codigoMeteo, reg]) raises
\* KeyError when the projected frame lacks one of the two columns
Compute_df_tabla(cols, rows) ==
    IF columnas_base(cols) = <<>> THEN [raised |-> "", tabla |-> <<>>]
    ELSE IF ~({COL_CODIGO, COL_REGION} \subseteq cols)
         THEN [raised |-> "KeyError", tabla |-> <<>>]
    ELSE [raised |-> "",
          tabla |-> LET kept == drop_duplicates(rows, {COL_CODIGO, COL_REGION})
                    IN  <<[i \in 1..Len(kept) |->
                              [c \in Range(columnas_base(cols)) |-> kept[i][c]]]>>]

\* the map: the features of the filtered rows that have a geometry
Compute_features(rows) == Filter(rows, [i \in 1..Len(rows) |-> rows[i][COL_GEOMETRY] # <<>>])

\* ------------------------------------------------------------------
\* The feeds of the model
\* ------------------------------------------------------------------
MaxRows == 3
MaxDegradedRows == 2

Codes == {"AA-101", "AL-202"}
RawTipos == {<<"aviso">>, <<"ALERTA">>, <<"Alarma">>, <<>>}
Regs == {"Arica", "Biobio", "Coquimbo"}
\* the feed's orden of each region
OrdenDe == [Arica |-> 3, Biobio |-> 1, Coquimbo |-> 2]
FenomenoDe == [c \in Codes |-> IF c = "AA-101" THEN <<"Viento">> ELSE <<"Lluvia">>]

EmisionA == <<"Viernes 28 de noviembre del 2025 a las 13:32 hrs.">>
EmisionB == <<"lunes 1 de diciembre del 2025 a las 9:05">>
EmisionC == <<"Viernes 28 de noviembre del 2025 a las 07:00 hrs">>
EmisionMala == <<"Viernes 28 de noviembre 2025 a las 13:32 hrs.">>

Feature(c, t, r, e) ==
    [codigoMeteo |-> c, tipo |-> t, reg |-> r, orden |-> OrdenDe[r], emision |-> e,
     estado |-> <<"Vigente">>, fenomeno |-> FenomenoDe[c], geometry |-> <<"Polygon">>]

\* features of one region that differ in code and severity, and features of
\* one severity that differ in code and region
AggFeatures ==
    {Feature(c, t, "Biobio", EmisionA) : c \in Codes, t \in RawTipos}
    \cup {Feature(c, <<"aviso">>, r, EmisionA) : c \in Codes, r \in Regs}
\* features of one region that differ in emission, code and severity
DateFeatures ==
    {Feature(ct[1], ct[2], "Biobio", e) :
        ct \in {<<"AA-101", <<"aviso">> >>, <<"AL-202", <<"ALERTA">> >>, <<"AA-101", <<"ALERTA">> >>},
        e \in {EmisionB, EmisionC, EmisionMala, <<>>}}
\* the features a feed without one of the properties is made of
DegradedFeatures ==
    {Feature(ct[1], ct[2], r, e) :
        ct \in {<<"AA-101", <<"aviso">> >>, <<"AL-202", <<"ALERTA">> >>},
        r \in {"Arica", "Biobio"}, e \in {EmisionA, EmisionMala}}

SeqsUpTo(S, n) == UNION {[1..k -> S] : k \in 1..n}

Without(rows, col) ==
    [i \in 1..Len(rows) |-> [c \in (DOMAIN rows[i]) \ {col} |-> rows[i][c]]]

FullFeeds ==
    {[status |-> "ok", cols |-> PropertyCols, rows |-> rows] :
        rows \in SeqsUpTo(AggFeatures, MaxRows) \cup SeqsUpTo(DateFeatures, MaxRows)}

\* feeds of a version that lacks one of the expected properties
DegradedFeeds ==
    {[status |-> "ok", cols |-> PropertyCols \ {col}, rows |-> Without(rows, col)] :
        col \in PropertyCols, rows \in SeqsUpTo(DegradedFeatures, MaxDegradedRows)}

EmptyFeed == [status |-> "ok", cols |-> {}, rows |-> <<>>]

FailedFeeds == {[status |-> e, cols |-> {}, rows |-> <<>>] :
                   e \in {"ConnectionError", "Timeout", "HTTPError"}}

Feeds == FullFeeds \cup DegradedFeeds \cup FailedFeeds \cup {EmptyFeed}

\* the clock of a run: seconds since 1970-01-01, local time
NowChoices == {EpochSeconds(<<2025, 12, 1, 9, 5>>) + 59,
               EpochSeconds(<<2025, 12, 3, 10, 6>>) + 1}

\* ------------------------------------------------------------------
\* The script run
\* ------------------------------------------------------------------
NoFrame == [cols |-> {}, rows |-> <<>>]
NoCounts == [Aviso |-> 0, Alerta |-> 0, Alarma |-> 0]
NoUltima == [fecha |-> <<>>, codigo |-> <<>>, tipo |-> <<>>, fenomeno |-> <<>>]
NoCard == [info |-> FALSE, tipo_norm |-> "", code_color |-> "",
           dias |-> 0, horas |-> 0, minutos |-> 0, partes |-> <<>>]
NoEmisionIn == [wd |-> "", day |-> "", de |-> "", mes |-> "", del |-> "", anio |-> "",
                alas |-> "", hora |-> "", min |-> "", tail |-> ""]

\* the variables of a run before it has computed anything
Blank ==
    /\ gdf = NoFrame
    /\ tipos_disponibles = <<>>
    /\ tipos_seleccionados = {}
    /\ regiones = <<>>
    /\ region_sel = Todas
    /\ rango_fechas = <<>>
    /\ gdf_filtrado = <<>>
    /\ counts = NoCounts
    /\ ultima = NoUltima
    /\ ahora = 0
    /\ card = NoCard
    /\ df_reg = <<>>
    /\ df_tabla = <<>>
    /\ screen = <<>>

ParseIdle == emisionIn = NoEmisionIn /\ value = <<>> /\ parsed = NaT

Init ==
    /\ pc = "start"
    /\ feed \in Feeds
    /\ Blank
    /\ ParseIdle

\* load_data, then st.error and st.stop on an exception, st.warning and st.stop
\* on an empty frame
LoadData ==
    /\ pc = "start"
    /\ LET r == load_data(feed)
       IN  IF r.raised # ""
           THEN /\ pc' = "error"
                /\ screen' = <<"error", r.raised>>
                /\ gdf' = gdf
           ELSE IF r.frame.rows = <<>>
           THEN /\ pc' = "empty"
                /\ screen' = <<"warning">>
                /\ gdf' = r.frame
           ELSE /\ pc' = "loaded"
                /\ screen' = screen
                /\ gdf' = r.frame
    /\ UNCHANGED <<feed, tipos_disponibles, tipos_seleccionados, regiones, region_sel,
                   rango_fechas, gdf_filtrado, counts, ultima, ahora, card, df_reg,
                   df_tabla, emisionIn, value, parsed>>

\* the normalisations: emision parsed, tipo title-cased
Normalize ==
    /\ pc = "loaded"
    /\ gdf' = normalizar(gdf)
    /\ pc' = "normalized"
    /\ UNCHANGED <<feed, tipos_disponibles, tipos_seleccionados, regiones, region_sel,
                   rango_fechas, gdf_filtrado, counts, ultima, ahora, card, df_reg,
                   df_tabla, screen, emisionIn, value, parsed>>

\* the three widgets of the sidebar, with what the user has selected in them
Sidebar ==
    /\ pc = "normalized"
    /\ tipos_disponibles' = Compute_tipos_disponibles(gdf)
    /\ tipos_seleccionados' \in MultiselectValues(Compute_tipos_disponibles(gdf))
    /\ regiones' = Compute_regiones(gdf)
    /\ region_sel' \in SelectboxValues(Compute_regiones(gdf))
    /\ rango_fechas' \in DateInputValues(gdf)
    /\ pc' = "sidebar"
    /\ screen' = screen \o <<"filtros">>
    /\ UNCHANGED <<feed, gdf, gdf_filtrado, counts, ultima, ahora, card, df_reg, df_tabla,
                   emisionIn, value, parsed>>

ApplyFilters ==
    /\ pc = "sidebar"
    /\ gdf_filtrado' = Compute_gdf_filtrado(gdf, tipos_seleccionados, region_sel, rango_fechas)
    /\ pc' = "filtered"
    /\ screen' = screen \o <<"registros">>
    /\ UNCHANGED <<feed, gdf, tipos_disponibles, tipos_seleccionados, regiones, region_sel,
                   rango_fechas, counts, ultima, ahora, card, df_reg, df_tabla,
                   emisionIn, value, parsed>>

\* the three KPI cards and the card of the last emission
KpiRow ==
    /\ pc = "filtered"
    /\ counts' = conteo_nacional(gdf.cols, gdf_filtrado)
    /\ ultima' = Compute_ultima(gdf)
    /\ ahora' \in NowChoices
    /\ card' = last_alert_card(ahora', Compute_ultima(gdf))
    /\ pc' = "kpi"
    /\ screen' = screen \o <<"kpi", "ultima">>
    /\ UNCHANGED <<feed, gdf, tipos_disponibles, tipos_seleccionados, regiones, region_sel,
                   rango_fechas, gdf_filtrado, df_reg, df_tabla, emisionIn, value, parsed>>

\* the left column: the chart by region, then the detail table
RegionSection ==
    /\ pc = "kpi"
    /\ df_reg' = Compute_df_reg(gdf.cols, gdf_filtrado)
    /\ LET t == Compute_df_tabla(gdf.cols, gdf_filtrado)
           chart == IF Compute_df_reg(gdf.cols, gdf_filtrado) = <<>>
                    THEN "info_region" ELSE "chart"
       IN  IF t.raised # ""
           THEN /\ pc' = "crashed"
                /\ df_tabla' = df_tabla
                /\ screen' = screen \o <<chart, t.raised>>
           ELSE /\ pc' = "left"
                /\ df_tabla' = t.tabla
                /\ screen' = screen \o <<chart, IF t.tabla = <<>> THEN "info_tabla" ELSE "tabla">>
    /\ UNCHANGED <<feed, gdf, tipos_disponibles, tipos_seleccionados, regiones, region_sel,
                   rango_fechas, gdf_filtrado, counts, ultima, ahora, card,
                   emisionIn, value, parsed>>

\* the right column: the map, then the expander with the raw frame
MapSection ==
    /\ pc = "left"
    /\ pc' = "done"
    /\ screen' = screen \o <<IF Compute_features(gdf_filtrado) = <<>> THEN "info_mapa" ELSE "mapa",
                             "datos">>
    /\ UNCHANGED <<feed, gdf, tipos_disponibles, tipos_seleccionados, regiones, region_sel,
                   rango_fechas, gdf_filtrado, counts, ultima, ahora, card, df_reg,
                   df_tabla, emisionIn, value, parsed>>

Ended == pc \in {"error", "empty", "done", "crashed"}

\* st_autorefresh, or an interaction of the user: the script runs again
Refresh ==
    /\ Ended
    /\ pc' = "start"
    /\ gdf' = NoFrame
    /\ tipos_disponibles' = <<>>
    /\ tipos_seleccionados' = {}
    /\ regiones' = <<>>
    /\ region_sel' = Todas
    /\ rango_fechas' = <<>>
    /\ gdf_filtrado' = <<>>
    /\ counts' = NoCounts
    /\ ultima' = NoUltima
    /\ ahora' = 0
    /\ card' = NoCard
    /\ df_reg' = <<>>
    /\ df_tabla' = <<>>
    /\ screen' = <<>>
    /\ UNCHANGED <<feed, emisionIn, value, parsed>>

Next == LoadData \/ Normalize \/ Sidebar \/ ApplyFilters \/ KpiRow \/ RegionSection \/ MapSection \/ Refresh

Spec == Init /\ [][Next]_vars

\* ------------------------------------------------------------------
\* parse_emision_text on its own
\* ------------------------------------------------------------------
\* the text an emission is written as, from its fields
TextOf(f) == f.wd \o " " \o f.day \o f.de \o f.mes \o f.del \o f.anio \o f.alas
             \o f.hora \o ":" \o f.min \o f.tail

EmisionInputs ==
    [wd : {"Viernes", "lunes"},
     day : {"28", "5", "31", "0"},
     de : {" de ", " "},
     mes : {"noviembre", "ENERO", "septiembre", "setiembre", "febréro", "brumario"},
     del : {" del ", " "},
     anio : {"2025", "2024"},
     alas : {" a las ", " de las "},
     hora : {"13", "9", "24"},
     min : {"32", "05", "60"},
     tail : {"", " hrs.", " hrs", "5"}]

InitParse ==
    /\ pc = "parse"
    /\ \/ emisionIn \in EmisionInputs /\ value = <<TextOf(emisionIn)>>
       \/ emisionIn = NoEmisionIn /\ value = <<>>
    /\ parsed = NaT
    /\ feed = EmptyFeed
    /\ Blank

ParseEmision ==
    /\ pc = "parse"
    /\ parsed' = parse_emision_text(value)
    /\ pc' = "parsed"
    /\ UNCHANGED <<feed, gdf, tipos_disponibles, tipos_seleccionados, regiones, region_sel,
                   rango_fechas, gdf_filtrado, counts, ultima, ahora, card, df_reg,
                   df_tabla, screen, emisionIn, value>>

NextParse == ParseEmision

SpecParse == InitParse /\ [][NextParse]_vars

\* ------------------------------------------------------------------
\* last_alert_card on its own
\* ------------------------------------------------------------------
MaxDias == 2

CardFechas == {<<2025, 11, 28, 13, 32>>, <<2024, 2, 29, 23, 59>>, <<2025, 12, 31, 0, 0>>}

CardInputs ==
    [fecha : {<<>>, <<NaT>>} \cup {<<f>> : f \in CardFechas},
     codigo : {<<"AA-101">>},
     tipo : {<<>>, <<"Aviso">>, <<"Alerta">>, <<"Alarma">>, <<"None">>},
     fenomeno : {<<"Viento">>}]

\* the clock: up to a day before an emission (a clock that runs behind the feed)
\* and up to MaxDias days and a day after it
CardClocks ==
    {EpochSeconds(f) + d * 86400 + h * 3600 + m * 60 + sec :
        f \in CardFechas, d \in (-1)..MaxDias, h \in {0, 1, 23}, m \in {0, 1, 59},
        sec \in {0, 59}}

InitCard ==
    /\ pc = "card"
    /\ feed = EmptyFeed
    /\ gdf = NoFrame
    /\ tipos_disponibles = <<>>
    /\ tipos_seleccionados = {}
    /\ regiones = <<>>
    /\ region_sel = Todas
    /\ rango_fechas = <<>>
    /\ gdf_filtrado = <<>>
    /\ counts = NoCounts
    /\ ultima \in CardInputs
    /\ ahora \in CardClocks
    /\ card = NoCard
    /\ df_reg = <<>>
    /\ df_tabla = <<>>
    /\ screen = <<>>
    /\ ParseIdle

LastAlertCard ==
    /\ pc = "card"
    /\ card' = last_alert_card(ahora, ultima)
    /\ pc' = "card_shown"
    /\ screen' = <<"ultima">>
    /\ UNCHANGED <<feed, gdf, tipos_disponibles, tipos_seleccionados, regiones, region_sel,
                   rango_fechas, gdf_filtrado, counts, ultima, ahora, df_reg, df_tabla,
                   emisionIn, value, parsed>>

NextCard == LastAlertCard

SpecCard == InitCard /\ [][NextCard]_vars

\* ------------------------------------------------------------------
\* Properties
\* ------------------------------------------------------------------
Filtered == pc \in {"filtered", "kpi", "left", "done", "crashed"}
KpiShown == pc \in {"kpi", "left", "done", "crashed"}
RegionShown == pc \in {"left", "done", "crashed"}

Known == {"Aviso", "Alerta", "Alarma"}

Has(col) == col \in gdf.cols

\* the severity and the event code of a normalised row, as the spec reads them
Severidad(r) == IF Has(COL_TIPO) THEN r[COL_TIPO] ELSE "unknown"
CodigosDe(rows) == IF Has(COL_CODIGO) THEN {r[COL_CODIGO] : r \in rows} ELSE {}

FiltradoSet == Range(gdf_filtrado)

\* ---- C1 ----
\* the text has the claim's shape: the three literals, a known month name after
\* accents are removed and letters lower-cased, and nothing after the minute but
\* an optional "hrs" or "hrs."
WellShaped(f) ==
    /\ f.de = " de " /\ f.del = " del " /\ f.alas = " a las "
    /\ f.tail \in {"", " hrs", " hrs."}
    /\ _strip_accents(MapLower(f.mes)) \in DOMAIN MONTHS_ES

ExpectedParse(f) ==
    IF WellShaped(f)
       /\ DatetimeOk(ToInt(f.anio), MONTHS_ES[_strip_accents(MapLower(f.mes))],
                     ToInt(f.day), ToInt(f.hora), ToInt(f.min))
    THEN <<ToInt(f.anio), MONTHS_ES[_strip_accents(MapLower(f.mes))],
           ToInt(f.day), ToInt(f.hora), ToInt(f.min)>>
    ELSE NaT

\* C1: parse_emision_text returns the timestamp of a text of the claim's shape
\* whose fields form a valid date and time, and the unparseable sentinel for
\* every other input, a missing value included: never a partly parsed timestamp.
C1_ParseExact ==
    pc = "parsed" =>
        parsed = (IF value = <<>> THEN NaT ELSE ExpectedParse(emisionIn))

\* (support for C1) the same statement for the texts with nothing after the
\* minute but the optional unit: there the parser agrees with the claim
ParseExactUpToTheMinute ==
    (pc = "parsed" /\ (value = <<>> \/ emisionIn.tail \in {"", " hrs", " hrs."})) =>
        parsed = (IF value = <<>> THEN NaT ELSE ExpectedParse(emisionIn))

\* ---- C2 ----
CodigosDeSeveridad(x) == CodigosDe({r \in FiltradoSet : Severidad(r) = x})
SumaKpi == counts.Aviso + counts.Alerta + counts.Alarma
ParesCodigoSeveridad == {<<r[COL_CODIGO], r[COL_TIPO]>> : r \in FiltradoSet}
HayDesconocida == \E r \in FiltradoSet : Severidad(r) \notin Known
UnaSeveridadPorCodigo ==
    \A r1 \in FiltradoSet, r2 \in FiltradoSet :
        r1[COL_CODIGO] = r2[COL_CODIGO] => r1[COL_TIPO] = r2[COL_TIPO]

\* C2 as claimed: each national count is the number of distinct event codes of
\* its severity among the filtered rows, and the three counts add up to at most
\* the number of distinct event codes, with equality only without unknown
\* severities.
C2_AsClaimed ==
    (KpiShown /\ Has(COL_CODIGO) /\ Has(COL_TIPO)) =>
        /\ \A x \in Known : counts[x] = Cardinality(CodigosDeSeveridad(x))
        /\ SumaKpi <= Cardinality(CodigosDe(FiltradoSet))
        /\ SumaKpi = Cardinality(CodigosDe(FiltradoSet)) => ~HayDesconocida

\* C2 amended: each national count is the number of distinct event codes of its
\* severity among the filtered rows; the three counts add up to at most the
\* number of distinct (event code, severity) pairs, with equality exactly when
\* no row has an unknown severity; and they add up to at most the number of
\* distinct event codes, with equality only without unknown severities, when no
\* event code appears under more than one severity.
C2_ConteoNacional ==
    KpiShown =>
        /\ \A x \in Known : counts[x] = Cardinality(CodigosDeSeveridad(x))
        /\ (Has(COL_CODIGO) /\ Has(COL_TIPO)) =>
              /\ SumaKpi <= Cardinality(ParesCodigoSeveridad)
              /\ SumaKpi = Cardinality(ParesCodigoSeveridad) <=> ~HayDesconocida
              /\ UnaSeveridadPorCodigo =>
                    /\ SumaKpi <= Cardinality(CodigosDe(FiltradoSet))
                    /\ SumaKpi = Cardinality(CodigosDe(FiltradoSet)) => ~HayDesconocida

\* one event code under two severities and under an unknown one, counted
C2_Witness ==
    /\ KpiShown
    /\ counts.Aviso = 1 /\ counts.Alerta = 1
    /\ Cardinality(CodigosDe(FiltradoSet)) = 1
    /\ HayDesconocida

\* ---- C3 ----
RegionCols == Has(COL_REGION) /\ Has(COL_ORDEN) /\ Has(COL_CODIGO)

RECURSIVE PrimeraAparicion(_)
\* the regions of a sequence of rows in the order of their first appearance
PrimeraAparicion(rows) ==
    IF rows = <<>> THEN <<>>
    ELSE LET rest == PrimeraAparicion(SubSeq(rows, 1, Len(rows) - 1))
             g == rows[Len(rows)][COL_REGION]
         IN  IF g \in Range(rest) THEN rest ELSE Append(rest, g)

SinOrden == ~Has(COL_ORDEN) /\ Has(COL_REGION) /\ Has(COL_CODIGO)

\* C4 as claimed: without the displayOrder field the per-region counts are
\* still produced, the regions in the order of their first appearance.
C4_AsClaimed ==
    (RegionShown /\ SinOrden) =>
        /\ Len(df_reg) = 1
        /\ Column(df_reg[1], COL_REGION) = PrimeraAparicion(gdf_filtrado)

\* C4 amended: without the displayOrder field the per-region counts are not
\* produced: the run shows the notice that the information does not suffice in
\* the place of the chart, and the region filter offers no region.
C4_SinOrdenSinGrafico ==
    (RegionShown /\ SinOrden) =>
        /\ df_reg = <<>>
        /\ regiones = <<>>
        /\ region_sel = Todas
        /\ "info_region" \in Range(screen)
        /\ "chart" \notin Range(screen)

C4_Witness ==
    /\ RegionShown /\ SinOrden
    /\ Len(gdf_filtrado) = 2
    /\ gdf_filtrado[1][COL_REGION] # gdf_filtrado[2][COL_REGION]

\* ---- C5 ----
\* the rows of the frame that pass the severity filter and the region filter
PasaTipoRegion(r) ==
    /\ (tipos_seleccionados # {} /\ Has(COL_TIPO)) => r[COL_TIPO] \in tipos_seleccionados
    /\ (region_sel # Todas /\ Has(COL_REGION)) => r[COL_REGION] = region_sel

RangoActivo == Has(COL_FECHA) /\ Len(rango_fechas) = 2

EnRango(r) ==
    /\ r[COL_FECHA] # NaT
    /\ SeqLE(rango_fechas[1], SubSeq(r[COL_FECHA], 1, 3))
    /\ SeqLE(SubSeq(r[COL_FECHA], 1, 3), rango_fechas[2])

\* the filtered view is a view of the frame: rows of the frame, in their order
EsVista ==
    /\ FiltradoSet \subseteq Range(gdf.rows)
    /\ \A i \in 1..Len(gdf_filtrado), j \in 1..Len(gdf_filtrado) :
          i < j => gdf_filtrado[i][COL_INDEX] < gdf_filtrado[j][COL_INDEX]

\* C5: with a date range active the filtered view holds exactly the rows that
\* pass the severity and region filters, have a parseable emision and have its
\* date, whatever the time of day, inside the range, both ends included; with
\* no range active no row is removed for its emision, and a row with an
\* unparseable emision is in the view and in the national and regional counts.
C5_FiltroFecha ==
    /\ Filtered =>
          /\ EsVista
          /\ RangoActivo =>
                FiltradoSet = {r \in Range(gdf.rows) : PasaTipoRegion(r) /\ EnRango(r)}
          /\ ~RangoActivo =>
                FiltradoSet = {r \in Range(gdf.rows) : PasaTipoRegion(r)}
    /\ (KpiShown /\ ~RangoActivo /\ Has(COL_CODIGO) /\ Has(COL_TIPO)) =>
          \A r \in Range(gdf.rows) :
              (PasaTipoRegion(r) /\ r[COL_TIPO] \in Known) => counts[r[COL_TIPO]] >= 1
    /\ (RegionShown /\ ~RangoActivo /\ RegionCols) =>
          \A r \in Range(gdf.rows) :
              PasaTipoRegion(r) =>
                  \E i \in 1..Len(df_reg[1]) :
                      df_reg[1][i].reg = r[COL_REGION] /\ df_reg[1][i].Total >= 1

\* an active range that keeps a row for its date at another time of day than
\* the rest, removes a row for its date and removes an unparseable row
C5_Witness ==
    /\ Filtered /\ RangoActivo
    /\ rango_fechas[1] = rango_fechas[2]
    /\ \E r \in FiltradoSet : r[COL_FECHA][4] # 0 \/ r[COL_FECHA][5] # 0
    /\ \E r \in Range(gdf.rows) :
          PasaTipoRegion(r) /\ r[COL_FECHA] # NaT /\ r \notin FiltradoSet
    /\ \E r \in Range(gdf.rows) :
          PasaTipoRegion(r) /\ r[COL_FECHA] = NaT /\ r \notin FiltradoSet

\* ---- C6 ----
UnCampoFalta ==
    /\ feed.status = "ok"
    /\ feed.rows # <<>>
    /\ Cardinality(PropertyCols \ feed.cols) = 1

\* C6: a non-empty record set that lacks any one of the expected fields is run
\* to the end without raising, every feature that does not depend on the field
\* is still produced, and without the severity field the three KPI report 0.
C6_CampoFaltante ==
    UnCampoFalta =>
        /\ pc # "crashed"
        /\ pc = "done" =>
              /\ {"filtros", "registros", "kpi", "ultima", "datos"} \subseteq Range(screen)
              /\ "tabla" \in Range(screen)
              /\ "mapa" \in Range(screen) \/ "info_mapa" \in Range(screen)
              /\ COL_TIPO \notin feed.cols => counts = NoCounts

\* (support for C6) the part of the claim about the severity field alone
SinSeveridadTodoCero ==
    (UnCampoFalta /\ COL_TIPO \notin feed.cols) =>
        /\ pc # "crashed"
        /\ KpiShown => counts = NoCounts

\* ---- C7 ----
\* the first row of the whole frame among those with the latest emision
EsLaUltima(i) ==
    /\ i \in FechaNotna(gdf)
    /\ \A j \in FechaNotna(gdf) :
          /\ SeqLE(gdf.rows[j][COL_FECHA], gdf.rows[i][COL_FECHA])
          /\ gdf.rows[j][COL_FECHA] = gdf.rows[i][COL_FECHA] => i <= j

Campo(i, col) == IF Has(col) THEN <<gdf.rows[i][col]>> ELSE <<>>

\* C7: whatever the filters select, the most recent event is the row of the
\* whole frame with the latest parseable emision, its code, severity and
\* phenomenon are those of that row, and there is none exactly when no row of
\* the whole frame has a parseable emision.
C7_UltimaSobreTodo ==
    KpiShown =>
        /\ ultima.fecha = <<>> <=> FechaNotna(gdf) = {}
        /\ card.info <=> FechaNotna(gdf) # {}
        /\ FechaNotna(gdf) = {} => ultima = NoUltima
        /\ FechaNotna(gdf) # {} =>
              \E i \in 1..Len(gdf.rows) :
                  /\ EsLaUltima(i)
                  /\ ultima = [fecha |-> <<gdf.rows[i][COL_FECHA]>>,
                               codigo |-> Campo(i, COL_CODIGO),
                               tipo |-> Campo(i, COL_TIPO),
                               fenomeno |-> Campo(i, COL_FENOMENO)]

\* the filters have removed the most recent event from the view, and it is
\* still the one shown
C7_Witness ==
    /\ KpiShown
    /\ gdf_filtrado # <<>>
    /\ ultima.fecha # <<>>
    /\ \A r \in FiltradoSet :
          r[COL_FECHA] # NaT /\ SeqLess(r[COL_FECHA], ultima.fecha[1])
    /\ \E r \in FiltradoSet : <<r[COL_CODIGO]>> # ultima.codigo

\* ---- C8 ----
\* C8: last_alert_card splits the elapsed time into days, hours of 0..23 and
\* minutes of 0..59 that add up to the elapsed time in whole minutes, and shows
\* the days only if there are any, the hours if there are any or the days are
\* shown, the minutes always.
C8_TiempoTranscurrido ==
    (pc = "card_shown" /\ card.info) =>
        LET elapsed == (ahora - EpochSeconds(ultima.fecha[1])) \div 60
        IN  /\ card.dias * 1440 + card.horas * 60 + card.minutos = elapsed
            /\ card.horas \in 0..23
            /\ card.minutos \in 0..59
            /\ "d" \in Range(card.partes) <=> card.dias > 0
            /\ "h" \in Range(card.partes) <=> (card.horas > 0 \/ card.dias > 0)
            /\ "min" \in Range(card.partes)
            /\ card.partes \in {<<"d", "h", "min">>, <<"h", "min">>, <<"min">>}

\* whole days with no remaining hour: the hours are shown because the days are
C8_Witness ==
    /\ pc = "card_shown" /\ card.info
    /\ card.dias = 2 /\ card.horas = 0 /\ card.minutos = 59
    /\ card.partes = <<"d", "h", "min">>

\* ---- C9 ----
SeverityRank(t) == IF t = "Aviso" THEN 1 ELSE IF t = "Alerta" THEN 2
                   ELSE IF t = "Alarma" THEN 3 ELSE 4

SidebarShown == pc \in {"sidebar", "filtered", "kpi", "left", "done", "crashed"}

\* C9: severities are normalised whatever their case, the unrecognised and the
\* absent ones become unknown, and the options of the severity filter and the
\* KPI series list them Aviso, Alerta, Alarma, then the unknown ones.
C9_OrdenSeveridad ==
    /\ (pc # "start" /\ pc # "loaded" /\ feed.status = "ok" /\ COL_TIPO \in feed.cols) =>
          \A i \in 1..Len(gdf.rows) :
              LET raw == feed.rows[i][COL_TIPO]
                  t == gdf.rows[i][COL_TIPO]
              IN  /\ raw \in {<<"aviso">>, <<"Aviso">>, <<"AVISO">>} => t = "Aviso"
                  /\ raw \in {<<"alerta">>, <<"Alerta">>, <<"ALERTA">>} => t = "Alerta"
                  /\ raw \in {<<"alarma">>, <<"Alarma">>, <<"ALARMA">>} => t = "Alarma"
                  /\ raw = <<>> => t \notin Known
    /\ SidebarShown =>
          \A i \in 1..Len(tipos_disponibles), j \in 1..Len(tipos_disponibles) :
              i < j => SeverityRank(tipos_disponibles[i]) <= SeverityRank(tipos_disponibles[j])
    /\ KpiSeries = <<"Aviso", "Alerta", "Alarma">>

\* (support for C9) the part of the claim the code keeps: the normalisation
NormalizaSeveridad ==
    (pc # "start" /\ pc # "loaded" /\ feed.status = "ok" /\ COL_TIPO \in feed.cols) =>
        \A i \in 1..Len(gdf.rows) :
            gdf.rows[i][COL_TIPO] = Title(AsStr(feed.rows[i][COL_TIPO]))
            /\ (feed.rows[i][COL_TIPO] = <<"ALERTA">> => gdf.rows[i][COL_TIPO] = "Alerta")

\* ---- C10 ----
\* C10: a refresh cycle ends in one of three states and never half-built: the
\* error state with its cause and nothing else published, the "no records"
\* state, or a complete page whose counts and most recent event come from the
\* one normalised snapshot; a bad row never makes it an error or "no records".
C10_TresEstados ==
    Ended =>
        /\ pc \in {"error", "empty", "done"}
        /\ pc = "error" <=> feed.status # "ok"
        /\ pc = "error" => screen = <<"error", feed.status>> /\ gdf = NoFrame
        /\ pc = "empty" <=> (feed.status = "ok" /\ feed.rows = <<>>)
        /\ pc = "empty" => screen = <<"warning">>
        /\ pc = "done" =>
              /\ gdf = normalizar(read_file(feed))
              /\ counts = conteo_nacional(gdf.cols, gdf_filtrado)
              /\ FiltradoSet \subseteq Range(gdf.rows)
              /\ {"kpi", "ultima", "datos"} \subseteq Range(screen)

\* (support for C10) what holds of every cycle that does not stop on the
\* KeyError of the detail table
TresEstadosSinKeyError ==
    (Ended /\ pc # "crashed") =>
        /\ pc = "error" <=> feed.status # "ok"
        /\ pc = "error" => screen = <<"error", feed.status>> /\ gdf = NoFrame
        /\ pc = "empty" <=> (feed.status = "ok" /\ feed.rows = <<>>)
        /\ pc = "empty" => screen = <<"warning">>
====
